---------------------------- MODULE Spec2Model ----------------------------
(***************************************************************************)
(* Model of the weekly budget synchronisation scripts:                     *)
(*   src/sync_budget_data.py  (date windows, warehouse adapter, sheet      *)
(*                             writer, run log, orchestrator)              *)
(*   src/Weekly-Budget.py     (the earlier single-dataset script)          *)
(*                                                                         *)
(* Calendar dates are proleptic Gregorian ordinals, as date.toordinal()    *)
(* numbers them (ordinal 1 = 0001-01-01, a Monday).  A text is a sequence  *)
(* of string fragments whose concatenation is the text; "" is <<>>.        *)
(* A warehouse or sheet value is a record [kind, s, a, b]: kind names the  *)
(* Python type, s holds a text, a and b hold integers.                     *)
(***************************************************************************)
EXTENDS Integers, Sequences, FiniteSets, TLC

-----------------------------------------------------------------------------
(* Bounds of the model *)

\* first calendar day explored by the date-window specification (2024-12-10)
FirstDay == 739230
\* number of consecutive days explored by the date-window specification
NumDays == 400
\* the calendar day the orchestrator's clock starts at (Sun 2025-11-23)
ClockStart == 739578
\* midnights that may pass while the orchestrator is observed
MaxTicks == 1
\* runs of main() observed
MaxRuns == 2
\* rows a warehouse query may return
MaxRows == 1
\* fragments of an account string
MaxAccountLen == 5
\* rows the cursor of the adapter specification may return
MaxFetch == 2
\* rows each of the two overlapping writes may carry
MaxWriteRows == 2

-----------------------------------------------------------------------------
(* Program constants *)

\* timedelta(days=75) of the budget window
BudgetDays == 75
\* timedelta(days=7): one week back from this week's Monday
WeekDays == 7
\* timedelta(days=6): Monday to Sunday
SundayOffset == 6

-----------------------------------------------------------------------------
(* Values *)

Val(k, t, x, y) == [kind |-> k, s |-> t, a |-> x, b |-> y]
NullV == Val("null", <<>>, 0, 0)
StrV(t) == Val("str", t, 0, 0)
IntV(i) == Val("int", <<>>, i, 0)
FloatV(num, den) == Val("float", <<>>, num, den)
\* decimal.Decimal with unscaled digits u and scale sc: u * 10^-sc
DecimalV(u, sc) == Val("decimal", <<>>, u, sc)
\* datetime.date with ordinal o
DateV(o) == Val("date", <<>>, o, 0)
\* datetime.datetime with ordinal o at hour h, minute and second 0, naive
DateTimeV(o, h) == Val("datetime", <<>>, o, h)

-----------------------------------------------------------------------------
(* date.weekday(), date.isoformat() *)

\* Monday = 0 ... Sunday = 6
weekday(o) == (o + 6) % 7

Digit(n) == CASE n = 0 -> "0" [] n = 1 -> "1" [] n = 2 -> "2" [] n = 3 -> "3"
              [] n = 4 -> "4" [] n = 5 -> "5" [] n = 6 -> "6" [] n = 7 -> "7"
              [] n = 8 -> "8" [] n = 9 -> "9"

Pad2(n) == << Digit((n \div 10) % 10), Digit(n % 10) >>
Pad4(n) == << Digit((n \div 1000) % 10), Digit((n \div 100) % 10) >> \o Pad2(n)

DaysInMonth(m, leap) ==
    CASE m = 2 -> IF leap THEN 29 ELSE 28
      [] m \in {4, 6, 9, 11} -> 30
      [] OTHER -> 31

\* days of the year before the first day of month m
DaysBeforeMonth(m, leap) ==
    << 0, 31, 59, 90, 120, 151, 181, 212, 243, 273, 304, 334 >>[m]
        + (IF m > 2 /\ leap THEN 1 ELSE 0)

\* ordinal -> <<year, month, day>>
ord2ymd(o) ==
    LET n0   == o - 1
        n400 == n0 \div 146097
        r400 == n0 % 146097
        n100 == r400 \div 36524
        r100 == r400 % 36524
        n4   == r100 \div 1461
        r4   == r100 % 1461
        n1   == r4 \div 365
        n    == r4 % 365
        year == n400 * 400 + 1 + n100 * 100 + n4 * 4 + n1
        leap == n1 = 3 /\ (n4 # 24 \/ n100 = 3)
        m0   == (n + 50) \div 32
        p0   == DaysBeforeMonth(m0, leap)
        month == IF p0 > n THEN m0 - 1 ELSE m0
        prec  == IF p0 > n THEN p0 - DaysInMonth(m0 - 1, leap) ELSE p0
    IN  IF n1 = 4 \/ n100 = 4
        THEN << year - 1, 12, 31 >>
        ELSE << year, month, n - prec + 1 >>

\* date.isoformat(): YYYY-MM-DD
IsoDate(o) ==
    LET ymd == ord2ymd(o)
    IN  Pad4(ymd[1]) \o << "-" >> \o Pad2(ymd[2]) \o << "-" >> \o Pad2(ymd[3])

\* datetime.isoformat() of a naive datetime on the hour: YYYY-MM-DDTHH:00:00
IsoDateTime(o, h) == IsoDate(o) \o << "T" >> \o Pad2(h) \o << ":", "0", "0", ":", "0", "0" >>

-----------------------------------------------------------------------------
(* 1. Date windows *)

\* the mutant of compute_budget_date_range with the forward window (start = today)
compute_budget_forward(today) == << today, today + BudgetDays >>

\* compute_budget_date_range with date.today() = today
compute_budget_date_range(today) == << today - BudgetDays, today + BudgetDays >>

\* the mutant of compute_time_entries_range that forgets to go back one week
compute_time_entries_this_week(today) ==
    LET this_monday == today - weekday(today)
    IN  << this_monday, this_monday + SundayOffset >>

\* compute_time_entries_range with date.today() = today
compute_time_entries_range(today) ==
    LET this_monday == today - weekday(today)
        prev_monday == this_monday - WeekDays
        prev_sunday == prev_monday + SundayOffset
    IN  << prev_monday, prev_sunday >>


-----------------------------------------------------------------------------
(* 2. Warehouse adapter: pure parts *)

\* the fragments an account string is made of; no concatenation of the other
\* fragments contains a scheme or the domain, so matching fragments is exact
Https == "https://"
Http == "http://"
Domain == ".snowflakecomputing.com"
Space == " "
AccountAlphabet == { Space, Https, Http, Domain, "x" }

\* str.lstrip(), str.rstrip(), str.strip()
RECURSIVE lstrip(_)
lstrip(t) == IF t # <<>> /\ Head(t) = Space THEN lstrip(Tail(t)) ELSE t

RECURSIVE rstrip(_)
rstrip(t) ==
    IF t # <<>> /\ t[Len(t)] = Space THEN rstrip(SubSeq(t, 1, Len(t) - 1)) ELSE t

strip(t) == rstrip(lstrip(t))

\* str.startswith(prefix) for a one-fragment prefix
startswith(t, prefix) == t # <<>> /\ Head(t) = prefix

\* sep in t, for a one-fragment sep
contains(t, sep) == \E i \in 1..Len(t) : t[i] = sep

\* t.split(sep)[0]: the text before the first occurrence of sep
split_first(t, sep) ==
    IF contains(t, sep)
    THEN LET i == CHOOSE k \in 1..Len(t) : t[k] = sep /\ \A j \in 1..(k - 1) : t[j] # sep
         IN  SubSeq(t, 1, i - 1)
    ELSE t

\* the mutant of _normalize_snowflake_account that forgets the hostname suffix
normalize_account_keep_domain(raw) ==
    LET r1 == strip(raw)
    IN  IF startswith(r1, Https) THEN Tail(r1)
        ELSE IF startswith(r1, Http) THEN Tail(r1)
        ELSE r1

_normalize_snowflake_account(raw) ==
    LET r1 == strip(raw)
        r2 == IF startswith(r1, Https) THEN Tail(r1)
              ELSE IF startswith(r1, Http) THEN Tail(r1)
              ELSE r1
    IN  IF contains(r2, Domain) THEN split_first(r2, Domain) ELSE r2

RECURSIVE Gcd(_, _)
Gcd(x, y) == IF y = 0 THEN x ELSE Gcd(y, x % y)

RECURSIVE Pow10(_)
Pow10(n) == IF n = 0 THEN 1 ELSE 10 * Pow10(n - 1)

Abs(x) == IF x < 0 THEN -x ELSE x

\* float(Decimal): the number u / 10^sc, kept as a reduced fraction
float_of_decimal(v) ==
    LET den == Pow10(v.b)
        g   == Gcd(Abs(v.a), den)
    IN  FloatV(v.a \div g, den \div g)

\* hasattr(value, "isoformat")
has_isoformat(v) == v.kind \in { "date", "datetime" }

isoformat(v) == IF v.kind = "date" THEN IsoDate(v.a) ELSE IsoDateTime(v.a, v.b)

\* sync_budget_data.py
_normalize_value(value) ==
    IF value.kind = "null" THEN StrV(<<>>)
    ELSE IF value.kind = "decimal" THEN float_of_decimal(value)
    ELSE IF has_isoformat(value) THEN StrV(isoformat(value))
    ELSE value

\* Weekly-Budget.py: the normalize closure of fetch_budget_data
normalize(value) ==
    IF value.kind = "null" THEN StrV(<<>>)
    ELSE IF has_isoformat(value) THEN StrV(isoformat(value))
    ELSE value

\* [[_normalize_value(v) for v in row] for row in rows]
normalize_rows(rows) ==
    [ i \in 1..Len(rows) |-> [ j \in 1..Len(rows[i]) |-> _normalize_value(rows[i][j]) ] ]

normalize_rows_weekly(rows) ==
    [ i \in 1..Len(rows) |-> [ j \in 1..Len(rows[i]) |-> normalize(rows[i][j]) ] ]

\* headers = [col[0] for col in cursor.description]
column_names(description) == [ i \in 1..Len(description) |-> description[i][1] ]

-----------------------------------------------------------------------------
(* 3. Spreadsheet service: a tab's values are a sequence of rows of cells *)

Max(x, y) == IF x >= y THEN x ELSE y

\* the mutant of values_clear that leaves the tab as it is
values_clear_nothing(grid) == grid

\* spreadsheets().values().clear(range=tab_name): every value of the tab
values_clear(grid) == << >>

overlay_row(old, new) ==
    [ j \in 1..Max(Len(old), Len(new)) |-> IF j <= Len(new) THEN new[j] ELSE old[j] ]

\* the mutant of values_update that replaces the whole tab by what it writes
values_update_replace(grid, vals) == vals

\* spreadsheets().values().update(range="<tab>!A1", body={"values": vals}):
\* writes vals cell by cell from the top-left cell; a cell outside vals keeps
\* its value
values_update(grid, vals) ==
    [ i \in 1..Max(Len(grid), Len(vals)) |->
        IF i <= Len(vals)
        THEN overlay_row(IF i <= Len(grid) THEN grid[i] ELSE << >>, vals[i])
        ELSE grid[i] ]

\* the mutant of values_append that writes at A2 as values().update would
values_append_overwrite(grid, rows) ==
    [ i \in 1..Max(Len(grid), 1 + Len(rows)) |->
        IF i >= 2 /\ i <= 1 + Len(rows) THEN rows[i - 1]
        ELSE IF i <= Len(grid) THEN grid[i] ELSE << >> ]

\* spreadsheets().values().append(range="<tab>!A2:G2", insertDataOption=
\* "INSERT_ROWS"): new rows are inserted after the last row of the table,
\* never above row 2
values_append(grid, rows) ==
    (IF grid = << >> THEN << << >> >> ELSE grid) \o rows

-----------------------------------------------------------------------------
(* State *)

VARIABLES
    \* the environment: the calendar date date.today() returns, midnights passed
    clock, ticks,
    \* the spreadsheet: titles of its tabs, values of each tab
    sheets, cells,
    \* main() of sync_budget_data.py: position, locals
    pc, run, budget_start, budget_end, te_start, te_end,
    budget_headers, budget_rows, te_headers, te_rows, exists,
    \* history of main(): the dates the two window functions read, the step
    \* that raised, the spreadsheet when the run started, the completed runs
    today_budget, today_te, failedAt, executed, startSheets, startCells, history,
    \* get_snowflake_connection's account, normalized once and once more
    acct_pc, acct_raw, acct_once, acct_twice,
    \* run_query / fetch_budget_data: position, resources, locals, outcome
    q_variant, q_pc, q_conn, q_cursor, q_source, q_description,
    q_rows, q_headers, q_result, q_error, q_first,
    \* two overlapping write_to_sheet calls on one tab
    w_pc, w_values, w_tab, w_overlap, w_order

envVars == << clock, ticks >>
sheetVars == << sheets, cells >>
mainVars == << pc, run, budget_start, budget_end, te_start, te_end,
               budget_headers, budget_rows, te_headers, te_rows, exists >>
histVars == << today_budget, today_te, failedAt, executed, startSheets, startCells, history >>
acctVars == << acct_pc, acct_raw, acct_once, acct_twice >>
queryVars == << q_variant, q_pc, q_conn, q_cursor, q_source, q_description,
                q_rows, q_headers, q_result, q_error, q_first >>
writeVars == << w_pc, w_values, w_tab, w_overlap, w_order >>
vars == << envVars, sheetVars, mainVars, histVars, acctVars, queryVars, writeVars >>
otherThanMain == << acctVars, queryVars, writeVars >>

-----------------------------------------------------------------------------
(* Data of the model *)

Text(name) == StrV(<< name >>)

\* cursor.description of the BudgetData query (three of its columns)
BudgetDescription == << << Text("WORK_ITEM_ID") >>, << Text("TOTAL_HOURS") >>, << Text("START_DATE") >> >>

\* cursor.description of SELECT * FROM user_time_entry_detail (two columns)
TimeEntriesDescription == << << Text("USER_ID") >>, << Text("REPORTING_DATE") >> >>

\* n rows of the budget query in run r: an id, a NUMBER with a scale, a date
\* inside the window
BudgetSource(r, n, start) ==
    [ i \in 1..n |-> << IntV(100 * r + i), DecimalV(125 * i, 1), DateV(start + i) >> ]

\* n rows of the time-entries query in run r: an id or NULL, a date
TimeEntriesSource(r, n, start) ==
    [ i \in 1..n |-> << IF i = 1 THEN NullV ELSE IntV(100 * r + i), DateV(start) >> ]

\* what an earlier, longer and wider report left on a tab
StaleRow(i) == << IntV(i), Text("stale"), Text("stale"), Text("stale") >>
StaleGrid == [ i \in 1..(MaxRows + 3) |-> StaleRow(i) ]

\* ensure_log_sheet: headers
LogHeader ==
    << Text("Run Timestamp (UTC)"), Text("Budget Start Date"), Text("Budget End Date"),
       Text("Budget Row Count"), Text("TimeEntries Start Date"),
       Text("TimeEntries End Date"), Text("TimeEntries Row Count") >>

\* the header an earlier version of the script wrote (fewer columns)
OldLogHeader ==
    << Text("Run Timestamp (UTC)"), Text("Start Date"), Text("End Date"), Text("Row Count") >>

\* datetime.now(timezone.utc).isoformat(); the time of day is the run's index
timestamp_utc(day, r) ==
    IsoDate(day) \o << "T" >> \o Pad2(r) \o << ":", "0", "0", ":", "0", "0", "+00:00" >>

\* log_run: values
log_values(stamp, bs, be, bn, ts, te, tn) ==
    << << StrV(stamp), StrV(IsoDate(bs)), StrV(IsoDate(be)), IntV(bn),
          StrV(IsoDate(ts)), StrV(IsoDate(te)), IntV(tn) >> >>

\* run_query, when nothing raises: headers and normalized rows
run_query(description, source) == << column_names(description), normalize_rows(source) >>

TabNames == { "BudgetData", "TimeEntriesData", "Log" }

HasSheet(title) == \E i \in 1..Len(sheets) : sheets[i] = title

-----------------------------------------------------------------------------
(* 5. main() of sync_budget_data.py, one action per call it makes *)

Steps == << "budget_range", "te_range", "b_fetch", "b_clear", "b_update",
            "te_fetch", "te_clear", "te_update",
            "log_get", "log_add", "log_header", "log_append" >>

\* the mutant of propagate that catches the exception and carries on
swallow(step) ==
    CASE step = "b_fetch" -> "b_clear" [] step = "b_clear" -> "b_update"
      [] step = "b_update" -> "te_fetch" [] step = "te_fetch" -> "te_clear"
      [] step = "te_clear" -> "te_update" [] step = "te_update" -> "log_get"
      [] step = "log_get" -> "log_header" [] step = "log_add" -> "log_header"
      [] step = "log_header" -> "log_append" [] OTHER -> "done"

\* main has no try/except: an exception of any call ends the run
propagate(step) == "failed"

\* the call at pc raises
Raise ==
    /\ pc \in { "b_fetch", "b_clear", "b_update", "te_fetch", "te_clear", "te_update",
                "log_get", "log_add", "log_header", "log_append" }
    /\ pc' = propagate(pc)
    /\ failedAt' = IF failedAt = "none" THEN pc ELSE failedAt
    /\ executed' = Append(executed, pc)
    /\ UNCHANGED << otherThanMain, envVars, sheetVars, run, budget_start, budget_end, te_start, te_end,
                    budget_headers, budget_rows, te_headers, te_rows, exists,
                    today_budget, today_te, startSheets, startCells, history >>

StartRun ==
    /\ pc \in { "idle", "done", "failed" }
    /\ run < MaxRuns
    /\ run' = run + 1
    /\ pc' = "budget_range"
    /\ budget_start' = 0 /\ budget_end' = 0 /\ te_start' = 0 /\ te_end' = 0
    /\ budget_headers' = << >> /\ budget_rows' = << >>
    /\ te_headers' = << >> /\ te_rows' = << >>
    /\ exists' = FALSE
    /\ today_budget' = 0 /\ today_te' = 0
    /\ failedAt' = "none"
    /\ executed' = << >>
    /\ startSheets' = sheets /\ startCells' = cells
    /\ UNCHANGED << otherThanMain, envVars, sheetVars, history >>

ComputeBudgetRange ==
    /\ pc = "budget_range"
    /\ budget_start' = compute_budget_date_range(clock)[1]
    /\ budget_end' = compute_budget_date_range(clock)[2]
    /\ today_budget' = clock
    /\ pc' = "te_range"
    /\ executed' = Append(executed, pc)
    /\ UNCHANGED << otherThanMain, envVars, sheetVars, run, te_start, te_end,
                    budget_headers, budget_rows, te_headers, te_rows, exists,
                    today_te, failedAt, startSheets, startCells, history >>

ComputeTimeEntriesRange ==
    /\ pc = "te_range"
    /\ te_start' = compute_time_entries_range(clock)[1]
    /\ te_end' = compute_time_entries_range(clock)[2]
    /\ today_te' = clock
    /\ pc' = "b_fetch"
    /\ executed' = Append(executed, pc)
    /\ UNCHANGED << otherThanMain, envVars, sheetVars, run, budget_start, budget_end,
                    budget_headers, budget_rows, te_headers, te_rows, exists,
                    today_budget, failedAt, startSheets, startCells, history >>

FetchBudget ==
    /\ pc = "b_fetch"
    /\ \E n \in 0..MaxRows :
         LET got == run_query(BudgetDescription, BudgetSource(run, n, budget_start))
         IN  budget_headers' = got[1] /\ budget_rows' = got[2]
    /\ pc' = "b_clear"
    /\ executed' = Append(executed, pc)
    /\ UNCHANGED << otherThanMain, envVars, sheetVars, run, budget_start, budget_end, te_start, te_end,
                    te_headers, te_rows, exists,
                    today_budget, today_te, failedAt, startSheets, startCells, history >>

FetchTimeEntries ==
    /\ pc = "te_fetch"
    /\ \E n \in 0..MaxRows :
         LET got == run_query(TimeEntriesDescription, TimeEntriesSource(run, n, te_start))
         IN  te_headers' = got[1] /\ te_rows' = got[2]
    /\ pc' = "te_clear"
    /\ executed' = Append(executed, pc)
    /\ UNCHANGED << otherThanMain, envVars, sheetVars, run, budget_start, budget_end, te_start, te_end,
                    budget_headers, budget_rows, exists,
                    today_budget, today_te, failedAt, startSheets, startCells, history >>

\* write_to_sheet, first call: values().clear(range=tab_name)
WriteClear(at, tab, next) ==
    /\ pc = at
    /\ HasSheet(tab)
    /\ cells' = [cells EXCEPT ![tab] = values_clear(@)]
    /\ pc' = next
    /\ executed' = Append(executed, pc)
    /\ UNCHANGED << otherThanMain, envVars, sheets, run, budget_start, budget_end, te_start, te_end,
                    budget_headers, budget_rows, te_headers, te_rows, exists,
                    today_budget, today_te, failedAt, startSheets, startCells, history >>

\* write_to_sheet, second call: values().update(range="<tab>!A1")
WriteUpdate(at, tab, headers, rows, next) ==
    /\ pc = at
    /\ HasSheet(tab)
    /\ cells' = [cells EXCEPT ![tab] = values_update(@, << headers >> \o rows)]
    /\ pc' = next
    /\ executed' = Append(executed, pc)
    /\ UNCHANGED << otherThanMain, envVars, sheets, run, budget_start, budget_end, te_start, te_end,
                    budget_headers, budget_rows, te_headers, te_rows, exists,
                    today_budget, today_te, failedAt, startSheets, startCells, history >>

ClearBudget == WriteClear("b_clear", "BudgetData", "b_update")
UpdateBudget == WriteUpdate("b_update", "BudgetData", budget_headers, budget_rows, "te_fetch")
ClearTimeEntries == WriteClear("te_clear", "TimeEntriesData", "te_update")
UpdateTimeEntries == WriteUpdate("te_update", "TimeEntriesData", te_headers, te_rows, "log_get")

\* ensure_log_sheet: spreadsheets().get(), exists
LogGet ==
    /\ pc = "log_get"
    /\ exists' = HasSheet("Log")
    /\ pc' = IF HasSheet("Log") THEN "log_header" ELSE "log_add"
    /\ executed' = Append(executed, pc)
    /\ UNCHANGED << otherThanMain, envVars, sheetVars, run, budget_start, budget_end, te_start, te_end,
                    budget_headers, budget_rows, te_headers, te_rows,
                    today_budget, today_te, failedAt, startSheets, startCells, history >>

\* ensure_log_sheet: batchUpdate(addSheet), only if not exists
LogAddSheet ==
    /\ pc = "log_add"
    /\ ~exists
    /\ sheets' = Append(sheets, "Log")
    /\ pc' = "log_header"
    /\ executed' = Append(executed, pc)
    /\ UNCHANGED << otherThanMain, envVars, cells, run, budget_start, budget_end, te_start, te_end,
                    budget_headers, budget_rows, te_headers, te_rows, exists,
                    today_budget, today_te, failedAt, startSheets, startCells, history >>

\* ensure_log_sheet: values().update(range="Log!A1", values=headers)
LogHeaderUpdate ==
    /\ pc = "log_header"
    /\ HasSheet("Log")
    /\ cells' = [cells EXCEPT !["Log"] = values_update(@, << LogHeader >>)]
    /\ pc' = "log_append"
    /\ executed' = Append(executed, pc)
    /\ UNCHANGED << otherThanMain, envVars, sheets, run, budget_start, budget_end, te_start, te_end,
                    budget_headers, budget_rows, te_headers, te_rows, exists,
                    today_budget, today_te, failedAt, startSheets, startCells, history >>

\* log_run: values().append(range="Log!A2:G2", INSERT_ROWS)
LogAppend ==
    /\ pc = "log_append"
    /\ HasSheet("Log")
    /\ cells' = [cells EXCEPT !["Log"] =
                   values_append(@, log_values(timestamp_utc(clock, run),
                                               budget_start, budget_end, Len(budget_rows),
                                               te_start, te_end, Len(te_rows)))]
    /\ history' = Append(history, [ run |-> run, day |-> clock,
                                    today_budget |-> today_budget, today_te |-> today_te,
                                    budget_rows |-> budget_rows, te_rows |-> te_rows,
                                    row |-> cells'["Log"][Len(cells'["Log"])] ])
    /\ pc' = "done"
    /\ executed' = Append(executed, pc)
    /\ UNCHANGED << otherThanMain, envVars, sheets, run, budget_start, budget_end, te_start, te_end,
                    budget_headers, budget_rows, te_headers, te_rows, exists,
                    today_budget, today_te, failedAt, startSheets, startCells >>

\* midnight passes; the date is read by the two window functions and by
\* log_run only, so a midnight is taken when one of them is about to read it
Tick ==
    /\ ticks < MaxTicks
    /\ pc \in { "budget_range", "te_range", "log_append" }
    /\ clock' = clock + 1
    /\ ticks' = ticks + 1
    /\ UNCHANGED << otherThanMain, sheetVars, mainVars, histVars >>

-----------------------------------------------------------------------------
(* Idle values of the parts a specification does not exercise *)

MainIdle ==
    /\ pc = "idle" /\ run = 0
    /\ budget_start = 0 /\ budget_end = 0 /\ te_start = 0 /\ te_end = 0
    /\ budget_headers = << >> /\ budget_rows = << >>
    /\ te_headers = << >> /\ te_rows = << >>
    /\ exists = FALSE
    /\ today_budget = 0 /\ today_te = 0
    /\ failedAt = "none" /\ executed = << >>
    /\ startSheets = sheets /\ startCells = cells
    /\ history = << >>

SheetIdle ==
    /\ sheets = << "BudgetData", "TimeEntriesData" >>
    /\ cells = [ t \in TabNames |-> << >> ]

AcctIdle ==
    acct_pc = "idle" /\ acct_raw = << >> /\ acct_once = << >> /\ acct_twice = << >>

QueryIdle ==
    /\ q_variant = "run_query" /\ q_pc = "idle"
    /\ q_conn = "none" /\ q_cursor = "unbound"
    /\ q_source = << >> /\ q_description = << >>
    /\ q_rows = << >> /\ q_headers = << >> /\ q_result = << >>
    /\ q_error = "none" /\ q_first = "none"

WriteIdle ==
    /\ w_pc = [ p \in {1, 2} |-> "idle" ]
    /\ w_values = [ p \in {1, 2} |-> << >> ]
    /\ w_tab = << >> /\ w_overlap = FALSE /\ w_order = << >>

-----------------------------------------------------------------------------
(* Spec: runs of main(), one after the other, on one spreadsheet *)

Init ==
    /\ clock = ClockStart
    /\ ticks = 0
    /\ \E withLog \in BOOLEAN :
         sheets = << "BudgetData", "TimeEntriesData" >> \o (IF withLog THEN << "Log" >> ELSE << >>)
    /\ \E prior \in { << >>, StaleGrid } :
       \E header \in { LogHeader, OldLogHeader } :
         cells = [ t \in TabNames |->
                     IF t = "Log" THEN (IF HasSheet("Log") THEN << header >> ELSE << >>)
                     ELSE prior ]
    /\ MainIdle /\ AcctIdle /\ QueryIdle /\ WriteIdle

Next ==
    \/ StartRun
    \/ ComputeBudgetRange
    \/ ComputeTimeEntriesRange
    \/ FetchBudget
    \/ ClearBudget
    \/ UpdateBudget
    \/ FetchTimeEntries
    \/ ClearTimeEntries
    \/ UpdateTimeEntries
    \/ LogGet
    \/ LogAddSheet
    \/ LogHeaderUpdate
    \/ LogAppend
    \/ Raise
    \/ Tick

Spec == Init /\ [][Next]_vars

-----------------------------------------------------------------------------
(* SpecDates: the two window functions on every day of a range *)

InitDates ==
    /\ clock \in FirstDay..(FirstDay + NumDays - 1)
    /\ ticks = 0
    /\ SheetIdle /\ MainIdle /\ AcctIdle /\ QueryIdle /\ WriteIdle

NextDates ==
    \/ StartRun
    \/ ComputeBudgetRange
    \/ ComputeTimeEntriesRange

SpecDates == InitDates /\ [][NextDates]_vars

-----------------------------------------------------------------------------
(* SpecAccount: get_snowflake_connection normalizes SNOWFLAKE_ACCOUNT; the *)
(* result is normalized once more, as when it is pasted back               *)

otherThanAccount == << envVars, sheetVars, mainVars, histVars, queryVars, writeVars >>

AccountStrings == UNION { [ 1..n -> AccountAlphabet ] : n \in 0..MaxAccountLen }

NormalizeAccount ==
    /\ acct_pc = "raw"
    /\ acct_once' = _normalize_snowflake_account(acct_raw)
    /\ acct_pc' = "once"
    /\ UNCHANGED << otherThanAccount, acct_raw, acct_twice >>

NormalizeAgain ==
    /\ acct_pc = "once"
    /\ acct_twice' = _normalize_snowflake_account(acct_once)
    /\ acct_pc' = "twice"
    /\ UNCHANGED << otherThanAccount, acct_raw, acct_once >>

InitAccount ==
    /\ clock = ClockStart /\ ticks = 0
    /\ SheetIdle /\ MainIdle /\ QueryIdle /\ WriteIdle
    /\ acct_pc = "raw"
    /\ acct_raw \in AccountStrings
    /\ acct_once = << >> /\ acct_twice = << >>

NextAccount ==
    \/ NormalizeAccount
    \/ NormalizeAgain

SpecAccount == InitAccount /\ [][NextAccount]_vars

-----------------------------------------------------------------------------
(* SpecQuery: run_query (sync_budget_data.py) and fetch_budget_data        *)
(* (Weekly-Budget.py), one action per call; every call may raise           *)

otherThanQuery == << envVars, sheetVars, mainVars, histVars, acctVars, writeVars >>

QueryValues ==
    { NullV, DecimalV(1250, 2), DateV(ClockStart), DateTimeV(ClockStart, 9),
      Text("x"), IntV(7) }

Descriptions == { << << Text("C1") >> >>, << << Text("C1") >>, << Text("C2") >> >> }

SourceRows(width) ==
    UNION { [ 1..n -> [ 1..width -> QueryValues ] ] : n \in 0..MaxFetch }

\* the first exception of the call
First(e) == IF q_first = "none" THEN e ELSE q_first

\* conn = get_snowflake_connection()
Connect ==
    /\ q_pc = "start"
    /\ \/ /\ q_conn' = "open"
          /\ q_pc' = "cursor"
          /\ UNCHANGED << q_error, q_first >>
       \/ /\ q_error' = "connect"
          /\ q_first' = First("connect")
          /\ q_pc' = "raised"
          /\ UNCHANGED q_conn
    /\ UNCHANGED << otherThanQuery, q_variant, q_cursor, q_source, q_description,
                    q_rows, q_headers, q_result >>

\* cursor = conn.cursor(): before the try in run_query, inside it in
\* fetch_budget_data
OpenCursor ==
    /\ q_pc = "cursor"
    /\ \/ /\ q_cursor' = "open"
          /\ q_pc' = "execute"
          /\ UNCHANGED << q_error, q_first >>
       \/ /\ q_error' = "cursor"
          /\ q_first' = First("cursor")
          /\ q_pc' = IF q_variant = "run_query" THEN "raised" ELSE "finally"
          /\ UNCHANGED q_cursor
    /\ UNCHANGED << otherThanQuery, q_variant, q_conn, q_source, q_description,
                    q_rows, q_headers, q_result >>

\* a call inside the try raises: control goes to the finally block
RaiseInTry(at, e) ==
    /\ q_pc = at
    /\ q_error' = e
    /\ q_first' = First(e)
    /\ q_pc' = "finally"
    /\ UNCHANGED << otherThanQuery, q_variant, q_conn, q_cursor, q_source, q_description,
                    q_rows, q_headers, q_result >>

\* cursor.execute(sql)
Execute ==
    /\ q_pc = "execute"
    /\ q_pc' = "fetchall"
    /\ UNCHANGED << otherThanQuery, q_variant, q_conn, q_cursor, q_source, q_description,
                    q_rows, q_headers, q_result, q_error, q_first >>

ExecuteRaises == RaiseInTry("execute", "execute")

\* rows = cursor.fetchall()
Fetchall ==
    /\ q_pc = "fetchall"
    /\ q_rows' = q_source
    /\ q_pc' = "description"
    /\ UNCHANGED << otherThanQuery, q_variant, q_conn, q_cursor, q_source, q_description,
                    q_headers, q_result, q_error, q_first >>

FetchallRaises == RaiseInTry("fetchall", "fetchall")

\* headers = [col[0] for col in cursor.description]
ReadDescription ==
    /\ q_pc = "description"
    /\ q_headers' = column_names(q_description)
    /\ q_pc' = "normalize"
    /\ UNCHANGED << otherThanQuery, q_variant, q_conn, q_cursor, q_source, q_description,
                    q_rows, q_result, q_error, q_first >>

DescriptionRaises == RaiseInTry("description", "description")

\* data_rows = [[...normalize...(v) for v in row] for row in rows];
\* return headers, data_rows
NormalizeAndReturn ==
    /\ q_pc = "normalize"
    /\ q_result' = << q_headers,
                      IF q_variant = "run_query" THEN normalize_rows(q_rows)
                      ELSE normalize_rows_weekly(q_rows) >>
    /\ q_pc' = "finally"
    /\ UNCHANGED << otherThanQuery, q_variant, q_conn, q_cursor, q_source, q_description,
                    q_rows, q_headers, q_error, q_first >>

\* finally: cursor.close(); an unbound cursor (fetch_budget_data, conn.cursor()
\* raised) makes it an UnboundLocalError
CloseCursor ==
    /\ q_pc = "finally"
    /\ \/ /\ q_cursor = "open"
          /\ q_cursor' = "closed"
          /\ q_pc' = "finally_conn"
          /\ UNCHANGED << q_error, q_first, q_result >>
       \/ /\ q_cursor = "open"
          /\ q_error' = "cursor.close"
          /\ q_first' = First("cursor.close")
          /\ q_result' = << >>
          /\ q_pc' = "raised"
          /\ UNCHANGED q_cursor
       \/ /\ q_cursor = "unbound"
          /\ q_error' = "UnboundLocalError"
          /\ q_result' = << >>
          /\ q_pc' = "raised"
          /\ UNCHANGED << q_cursor, q_first >>
    /\ UNCHANGED << otherThanQuery, q_variant, q_conn, q_source, q_description,
                    q_rows, q_headers >>

\* finally: conn.close(); then the pending exception, if any, goes on
CloseConnection ==
    /\ q_pc = "finally_conn"
    /\ \/ /\ q_conn' = "closed"
          /\ q_pc' = IF q_error = "none" THEN "returned" ELSE "raised"
          /\ UNCHANGED << q_error, q_first, q_result >>
       \/ /\ q_error' = "conn.close"
          /\ q_first' = First("conn.close")
          /\ q_result' = << >>
          /\ q_pc' = "raised"
          /\ UNCHANGED q_conn
    /\ UNCHANGED << otherThanQuery, q_variant, q_cursor, q_source, q_description,
                    q_rows, q_headers >>

InitQuery ==
    /\ clock = ClockStart /\ ticks = 0
    /\ SheetIdle /\ MainIdle /\ AcctIdle /\ WriteIdle
    /\ q_variant \in { "run_query", "fetch_budget_data" }
    /\ q_pc = "start"
    /\ q_conn = "none" /\ q_cursor = "unbound"
    /\ q_description \in Descriptions
    /\ q_source \in SourceRows(Len(q_description))
    /\ q_rows = << >> /\ q_headers = << >> /\ q_result = << >>
    /\ q_error = "none" /\ q_first = "none"

NextQuery ==
    \/ Connect
    \/ OpenCursor
    \/ Execute
    \/ ExecuteRaises
    \/ Fetchall
    \/ FetchallRaises
    \/ ReadDescription
    \/ DescriptionRaises
    \/ NormalizeAndReturn
    \/ CloseCursor
    \/ CloseConnection

SpecQuery == InitQuery /\ [][NextQuery]_vars

-----------------------------------------------------------------------------
(* SpecWrites: two runs whose write_to_sheet calls on one tab overlap      *)

otherThanWrites == << envVars, sheetVars, mainVars, histVars, acctVars, queryVars >>

Other(p) == 3 - p

\* [headers] + rows of run p with n rows
WriteValues(p, n) ==
    LET got == run_query(BudgetDescription, BudgetSource(p, n, ClockStart))
    IN  << got[1] >> \o got[2]

\* run p: values().clear(range=tab_name)
ClearOverlapped(p) ==
    /\ w_pc[p] = "idle"
    /\ w_tab' = values_clear(w_tab)
    /\ w_pc' = [w_pc EXCEPT ![p] = "cleared"]
    /\ w_overlap' = (w_overlap \/ w_pc[Other(p)] = "cleared")
    /\ w_order' = Append(w_order, [ run |-> p, call |-> "clear" ])
    /\ UNCHANGED << otherThanWrites, w_values >>

\* run p: values().update(range="<tab>!A1", values=[headers] + rows)
UpdateOverlapped(p) ==
    /\ w_pc[p] = "cleared"
    /\ w_tab' = values_update(w_tab, w_values[p])
    /\ w_pc' = [w_pc EXCEPT ![p] = "done"]
    /\ w_order' = Append(w_order, [ run |-> p, call |-> "update" ])
    /\ UNCHANGED << otherThanWrites, w_values, w_overlap >>

InitWrites ==
    /\ clock = ClockStart /\ ticks = 0
    /\ SheetIdle /\ MainIdle /\ AcctIdle /\ QueryIdle
    /\ w_pc = [ p \in {1, 2} |-> "idle" ]
    /\ \E n1 \in 0..MaxWriteRows : \E n2 \in 0..MaxWriteRows :
         w_values = [ p \in {1, 2} |-> WriteValues(p, IF p = 1 THEN n1 ELSE n2) ]
    /\ w_tab \in { << >>, StaleGrid }
    /\ w_overlap = FALSE
    /\ w_order = << >>

NextWrites ==
    \/ \E p \in {1, 2} : ClearOverlapped(p)
    \/ \E p \in {1, 2} : UpdateOverlapped(p)

SpecWrites == InitWrites /\ [][NextWrites]_vars

-----------------------------------------------------------------------------
(* Claims about main(): Spec and SpecDates *)

Written(tab, headers, rows) ==
    /\ Len(cells[tab]) = Len(rows) + 1
    /\ cells[tab][1] = headers
    /\ \A i \in 1..Len(rows) : cells[tab][i + 1] = rows[i]

\* C1: when write_to_sheet has returned, the tab holds exactly N+1 rows: the
\* header row, then the N data rows in order, whatever the tab held before
C1_FullReplace ==
    /\ pc = "te_fetch" => Written("BudgetData", budget_headers, budget_rows)
    /\ pc = "log_get" => Written("TimeEntriesData", te_headers, te_rows)

\* C1 witness: a header-only write has replaced a longer and wider prior tab
C1_Witness ==
    /\ pc = "te_fetch"
    /\ startCells["BudgetData"] = StaleGrid
    /\ budget_rows = << >>
    /\ Len(cells["BudgetData"]) = 1

DatasetSteps == { "b_fetch", "b_clear", "b_update", "te_fetch", "te_clear", "te_update" }

\* C2: when a fetch or a write of a dataset raises, the run has stopped at that
\* step: nothing later was executed, the Log tab is as it was when the run
\* started, a failure in the BudgetData steps leaves TimeEntriesData untouched,
\* and a failure in the TimeEntriesData steps leaves BudgetData holding this
\* run's header and rows
C2_AbortOnFailure ==
    failedAt \in DatasetSteps =>
        /\ pc = "failed"
        /\ executed[Len(executed)] = failedAt
        /\ \A i \in 1..Len(executed) : executed[i] = Steps[i]
        /\ sheets = startSheets
        /\ cells["Log"] = startCells["Log"]
        /\ failedAt \in { "b_fetch", "b_clear", "b_update" } =>
             cells["TimeEntriesData"] = startCells["TimeEntriesData"]
        /\ failedAt \in { "te_fetch", "te_clear", "te_update" } =>
             Written("BudgetData", budget_headers, budget_rows)

\* C2 witness: the second run failed in the TimeEntriesData write after the
\* first run had logged; BudgetData holds the second run's rows
C2_Witness ==
    /\ failedAt = "te_update"
    /\ pc = "failed"
    /\ run = 2
    /\ Len(history) = 1
    /\ Len(budget_rows) = 1
    /\ cells["BudgetData"] # startCells["BudgetData"]

LogTabs == { i \in 1..Len(sheets) : sheets[i] = "Log" }

\* the Monday between 13 and 7 days before day t
MondayBefore(t) == CHOOSE m \in (t - 13)..(t - 7) : m % 7 = 1

\* the row a completed run is to have appended
ExpectedLogRow(h) ==
    << StrV(timestamp_utc(h.day, h.run)),
       StrV(IsoDate(h.today_budget - 75)), StrV(IsoDate(h.today_budget + 75)),
       IntV(Len(h.budget_rows)),
       StrV(IsoDate(MondayBefore(h.today_te))), StrV(IsoDate(MondayBefore(h.today_te) + 6)),
       IntV(Len(h.te_rows)) >>

\* C3: there is never more than one tab named Log, and once k >= 1 runs have
\* completed there is exactly one, holding the header row once and then one
\* row per completed run, in run order: each is still the row that run left
\* as the last one, and the row a run has just left holds that run's
\* timestamp, windows and row counts
C3_LogGrowsByOne ==
    /\ Cardinality(LogTabs) <= 1
    /\ history # << >> =>
         /\ Cardinality(LogTabs) = 1
         /\ Len(cells["Log"]) = 1 + Len(history)
         /\ cells["Log"][1] = LogHeader
         /\ \A k \in 1..Len(history) : cells["Log"][k + 1] = history[k].row
    /\ pc = "done" =>
         /\ history # << >>
         /\ history[Len(history)].run = run
         /\ history[Len(history)].row = ExpectedLogRow(history[Len(history)])

\* C3 witness: two runs have completed, the first of which created the tab
C3_Witness ==
    /\ pc = "done"
    /\ Len(history) = 2
    /\ Len(cells["Log"]) = 3
    /\ cells["Log"][2] # cells["Log"][3]

\* C4: the time-entries window starts on a Monday, ends six days later on the
\* following Sunday, and ends before the Monday of the week that contains today
C4_PreviousWeek ==
    pc \notin { "idle", "budget_range", "te_range" } =>
        /\ te_start % 7 = 1
        /\ te_end = te_start + 6
        /\ te_end % 7 = 0
        /\ \A m \in (today_te - 6)..today_te : m % 7 = 1 => te_end < m

\* C4 witness: today is Tuesday 2025-11-25 and the window is 2025-11-17 to
\* 2025-11-23
C4_Witness ==
    /\ pc = "b_fetch"
    /\ IsoDate(today_te) = << "2", "0", "2", "5", "-", "1", "1", "-", "2", "5" >>
    /\ IsoDate(te_start) = << "2", "0", "2", "5", "-", "1", "1", "-", "1", "7" >>
    /\ IsoDate(te_end) = << "2", "0", "2", "5", "-", "1", "1", "-", "2", "3" >>

\* C5: the budget window is today - 75 days to today + 75 days, start <= end
C5_CenteredWindow ==
    pc \in { "te_range", "b_fetch" } =>
        /\ budget_start = today_budget - 75
        /\ budget_end = today_budget + 75
        /\ budget_start <= budget_end

\* C5 witness: today is 2025-11-25 and the window is 2025-09-11 to 2026-02-08
C5_Witness ==
    /\ pc = "te_range"
    /\ IsoDate(today_budget) = << "2", "0", "2", "5", "-", "1", "1", "-", "2", "5" >>
    /\ IsoDate(budget_start) = << "2", "0", "2", "5", "-", "0", "9", "-", "1", "1" >>
    /\ IsoDate(budget_end) = << "2", "0", "2", "6", "-", "0", "2", "-", "0", "8" >>

\* C6: within a run both windows are derived from one calendar date: the
\* time-entries window is the previous week of the day the budget window is
\* centered on
C6_OneToday ==
    pc \notin { "idle", "budget_range", "te_range" } =>
        << te_start, te_end >> = compute_time_entries_range(budget_start + BudgetDays)

-----------------------------------------------------------------------------
(* Claims about the warehouse adapter: SpecQuery and SpecAccount *)

SourceKinds == { "null", "decimal", "date", "datetime" }

NormalizedValue(src, out) ==
    /\ out.kind \notin SourceKinds
    /\ src.kind = "null" => out = StrV(<< >>)
    /\ src.kind = "decimal" => out.kind = "float" /\ out.a * Pow10(src.b) = src.a * out.b
    /\ src.kind = "date" => out = StrV(IsoDate(src.a))
    /\ src.kind = "datetime" => out = StrV(IsoDateTime(src.a, src.b))
    /\ src.kind \notin SourceKinds => out = src

\* C7: every row the adapter returns has one value per header, and every value
\* is normalized: null to "", Decimal to float, date or datetime to its ISO
\* text, anything else unchanged
C7_RowsNormalized ==
    q_pc = "returned" =>
        /\ Len(q_result[2]) = Len(q_source)
        /\ \A i \in 1..Len(q_result[2]) :
             /\ Len(q_result[2][i]) = Len(q_result[1])
             /\ \A j \in 1..Len(q_result[2][i]) :
                  NormalizedValue(q_source[i][j], q_result[2][i][j])

\* C7 for run_query alone
RunQueryRowsNormalized == q_variant = "run_query" => C7_RowsNormalized

\* C9: when the call has ended after the connection was opened, the connection
\* is closed, a cursor that was created is closed unless its own close raised,
\* and an exception that leaves the call is the first one that was raised
C9_Released ==
    (q_pc \in { "returned", "raised" } /\ q_conn # "none") =>
        /\ q_conn = "closed"
        /\ (q_cursor # "unbound" /\ q_first # "cursor.close") => q_cursor = "closed"
        /\ q_pc = "raised" => q_error = q_first

Schemes == { Https, Http }

\* a bare account name: no whitespace around it, no scheme in front, no Domain
Clean(t) ==
    /\ t # << >> => (t[1] \notin Schemes \cup { Space } /\ t[Len(t)] # Space)
    /\ \A i \in 1..Len(t) : t[i] # Domain

AllSpace(t, from, to) == \A i \in from..to : t[i] = Space

\* t is whitespace, at most one scheme, the bare name t[b+1..c], then nothing
\* or Domain and anything, then whitespace
Pasted(t, a, b, c, d) ==
    /\ AllSpace(t, 1, a)
    /\ b \in { a, a + 1 }
    /\ b = a + 1 => t[b] \in Schemes
    /\ Clean(SubSeq(t, b + 1, c))
    /\ d > c => t[c + 1] = Domain
    /\ AllSpace(t, d + 1, Len(t))

\* C8 as claimed: for every input the result has no leading scheme and no
\* Domain suffix, normalizing it again changes nothing, and a clean name is
\* returned as it is
C8_Idempotent ==
    acct_pc = "twice" =>
        /\ acct_once # << >> => (acct_once[1] \notin Schemes /\ acct_once[Len(acct_once)] # Domain)
        /\ acct_twice = acct_once
        /\ Clean(acct_raw) => acct_once = acct_raw

\* C8 as amended: the result never contains Domain; a clean name is returned
\* as it is; an input that is whitespace, at most one scheme, a bare name, then
\* nothing or Domain and anything, then whitespace, gives the bare name, and
\* normalizing a clean result again changes nothing
C8_Canonical ==
    acct_pc \in { "once", "twice" } =>
        /\ \A i \in 1..Len(acct_once) : acct_once[i] # Domain
        /\ Clean(acct_raw) => acct_once = acct_raw
        /\ \A a \in 0..Len(acct_raw) : \A b \in a..Len(acct_raw) :
           \A c \in b..Len(acct_raw) : \A d \in c..Len(acct_raw) :
             Pasted(acct_raw, a, b, c, d) =>
                /\ acct_once = SubSeq(acct_raw, b + 1, c)
                /\ Clean(acct_once)
        /\ (acct_pc = "twice" /\ Clean(acct_once)) => acct_twice = acct_once

\* C8 witness: " https://x.snowflakecomputing.com " gives "x", and "x" again
C8_Witness ==
    /\ acct_pc = "twice"
    /\ acct_raw = << Space, Https, "x", Domain, Space >>
    /\ acct_once = << "x" >>
    /\ acct_twice = << "x" >>

-----------------------------------------------------------------------------
(* Claim about overlapping runs: SpecWrites *)

BothDone == w_pc[1] = "done" /\ w_pc[2] = "done"

\* the runs whose update came first and last
FirstUpdate == IF w_order[3].call = "update" THEN w_order[3].run ELSE w_order[2].run
LastUpdate == w_order[4].run

ClearsFirst == w_order[1].call = "clear" /\ w_order[2].call = "clear"

\* the tab holds neither run's header and rows
Mixed == w_tab # w_values[1] /\ w_tab # w_values[2]

\* the later write on top, the rest of the longer earlier write below it
LaterOverLonger ==
    /\ Len(w_values[FirstUpdate]) > Len(w_values[LastUpdate])
    /\ Len(w_tab) = Len(w_values[FirstUpdate])
    /\ \A i \in 1..Len(w_tab) :
         w_tab[i] = IF i <= Len(w_values[LastUpdate])
                    THEN w_values[LastUpdate][i] ELSE w_values[FirstUpdate][i]

\* the later write repeats the first rows of the earlier one
LaterIsPrefix ==
    /\ Len(w_values[LastUpdate]) <= Len(w_values[FirstUpdate])
    /\ \A i \in 1..Len(w_values[LastUpdate]) :
         w_values[LastUpdate][i] = w_values[FirstUpdate][i]

\* C10: when both writes have ended, runs that did not overlap leave the tab
\* holding the later run's header and rows; when both clears came before both
\* updates and the earlier update wrote more rows, the tab is not what the
\* later run wrote: it holds the later write with the rest of the longer one
\* below it, which is neither run's values unless the later write repeats the
\* first rows of the earlier; and the tab holds neither run's values only in
\* this way
C10_UnsafeOverlap ==
    BothDone =>
        /\ ~w_overlap => w_tab = w_values[LastUpdate]
        /\ (ClearsFirst /\ Len(w_values[FirstUpdate]) > Len(w_values[LastUpdate])) =>
             /\ LaterOverLonger
             /\ w_tab # w_values[LastUpdate]
             /\ Mixed <=> ~LaterIsPrefix
        /\ Mixed => (w_overlap /\ ClearsFirst /\ LaterOverLonger)

\* C10 witness: clear 1, clear 2, update 1, update 2 has left rows of run 1
\* below the shorter write of run 2
C10_Witness ==
    /\ BothDone
    /\ w_order = << [ run |-> 1, call |-> "clear" ], [ run |-> 2, call |-> "clear" ],
                    [ run |-> 1, call |-> "update" ], [ run |-> 2, call |-> "update" ] >>
    /\ Mixed
    /\ Len(w_tab) > Len(w_values[2])
    /\ w_tab[Len(w_tab)] = w_values[1][Len(w_values[1])]

=============================================================================
